---------------------------- MODULE Spec2Model ----------------------------
(***************************************************************************)
(* A model of the Aunis scripting engine (S73f4n/Aunis):                   *)
(*   - Scripting.py : TCPClient.query, ScriptingInterface                  *)
(*                    (check_syntax, parse_commands, _parse_block,         *)
(*                    execute) and FUNCTION_REGISTRY;                      *)
(*   - Aunis.py     : runScriptThread (the worker) and AunisUI (the        *)
(*                    initiator: runScript, stopScript, signal slots).     *)
(*                                                                         *)
(* Text is modelled as a sequence of one-character strings, so that        *)
(* strip(), split(), startswith() and isdigit() are computed as Python     *)
(* computes them.  A script is the sequence of its raw lines (what         *)
(* str.splitlines() returns).                                              *)
(***************************************************************************)
EXTENDS Integers, Sequences, FiniteSets, TLC

(***************************************************************************)
(* Bounds of the model.                                                    *)
(***************************************************************************)
\* longest script (in raw lines) given to the validator
MaxLines == 3
\* longest script (in raw lines) given to the expander
MaxExpLines == 5
\* largest number of `|`-separated fields of a reply given to query
MaxFields == 4
\* start requests (clicks on Run) considered in one behaviour
MaxStarts == 2
\* calls of send or query made on one client in one behaviour
MaxCalls == 2

(***************************************************************************)
(* Text helpers: Python's str methods on sequences of characters.          *)
(***************************************************************************)
Whitespace == {" ", "\t", "\n"}

Digits == {"0", "1", "2", "3", "4", "5", "6", "7", "8", "9"}

RECURSIVE LStrip(_)
LStrip(s) ==
    IF s = <<>> THEN s
    ELSE IF Head(s) \in Whitespace THEN LStrip(Tail(s)) ELSE s

RECURSIVE RStrip(_)
RStrip(s) ==
    IF s = <<>> THEN s
    ELSE IF s[Len(s)] \in Whitespace THEN RStrip(SubSeq(s, 1, Len(s) - 1)) ELSE s

\* str.strip()
Strip(s) == RStrip(LStrip(s))

RECURSIVE SplitWsFrom(_, _, _)
SplitWsFrom(s, cur, acc) ==
    IF s = <<>> THEN (IF cur = <<>> THEN acc ELSE Append(acc, cur))
    ELSE IF Head(s) \in Whitespace
         THEN SplitWsFrom(Tail(s), <<>>, IF cur = <<>> THEN acc ELSE Append(acc, cur))
         ELSE SplitWsFrom(Tail(s), Append(cur, Head(s)), acc)

\* str.split() with no separator: the maximal runs of non-whitespace
Split(s) == SplitWsFrom(s, <<>>, <<>>)

RECURSIVE SplitOnFrom(_, _, _, _)
SplitOnFrom(s, sep, cur, acc) ==
    IF s = <<>> THEN Append(acc, cur)
    ELSE IF Head(s) = sep
         THEN SplitOnFrom(Tail(s), sep, <<>>, Append(acc, cur))
         ELSE SplitOnFrom(Tail(s), sep, Append(cur, Head(s)), acc)

\* str.split(sep) for a one-character separator: always at least one part
SplitOn(s, sep) == SplitOnFrom(s, sep, <<>>, <<>>)

\* str.startswith(p)
StartsWith(s, p) == Len(s) >= Len(p) /\ SubSeq(s, 1, Len(p)) = p

\* str.isdigit(): non-empty and every character a digit
IsDigit(tok) == tok /= <<>> /\ \A i \in 1..Len(tok) : tok[i] \in Digits

DigitVal(c) ==
    CASE c = "0" -> 0 [] c = "1" -> 1 [] c = "2" -> 2 [] c = "3" -> 3
      [] c = "4" -> 4 [] c = "5" -> 5 [] c = "6" -> 6 [] c = "7" -> 7
      [] c = "8" -> 8 [] c = "9" -> 9

RECURSIVE DigitsToNat(_, _)
DigitsToNat(tok, acc) ==
    IF tok = <<>> THEN acc ELSE DigitsToNat(Tail(tok), 10 * acc + DigitVal(Head(tok)))

\* int(tok) / np.<type>(tok) on a token of decimal digits
ToNat(tok) == DigitsToNat(tok, 0)

RECURSIVE Repeat(_, _)
\* Python's  list * n
Repeat(block, n) == IF n <= 0 THEN <<>> ELSE block \o Repeat(block, n - 1)

(***************************************************************************)
(* The words of the script language and the command names used here.       *)
(***************************************************************************)
KwLoop == <<"l", "o", "o", "p">>

KwEnd == <<"e", "n", "d">>

NmWait == <<"w", "a", "i", "t">>

NmFbGet == <<"f", "b", ".", "G", "e", "t">>

NmXySet == <<"x", "y", ".", "S", "e", "t">>

NmTrackSet == <<"a", "t", "o", "m", "t", "r", "a", "c", "k", ".",
                "T", "r", "a", "c", "k", "S", "e", "t">>


(***************************************************************************)
(* FUNCTION_REGISTRY: the entries the model uses.  An ArgSpec is           *)
(* [label, type, default, user]; `recv` is the class named by the          *)
(* function's __qualname__ ("" for a lambda).                              *)
(***************************************************************************)
ArgSpec(label, type, default, user) ==
    [label |-> label, type |-> type, default |-> default, user |-> user]

RegWait ==
    [func |-> "ScriptingInterface.wait", recv |-> "ScriptingInterface",
     args |-> << ArgSpec("Time (s)", "uint32", 5, TRUE) >>]

RegFbGet ==
    [func |-> "Nanonis.ZCtrl_OnOffGet", recv |-> "Nanonis",
     args |-> << >>]

RegXySet ==
    [func |-> "ScriptingInterface.setZ", recv |-> "ScriptingInterface",
     args |-> << ArgSpec("x (m)", "float64", 0, TRUE),
                 ArgSpec("y (m)", "float64", 0, TRUE) >>]

RegTrackSet ==
    [func |-> "Nanonis.AtomTrack_CtrlSet", recv |-> "Nanonis",
     args |-> << ArgSpec("AT control", "uint16", 1, FALSE),
                 ArgSpec("Status", "uint16", 0, TRUE) >>]

FUNCTION_REGISTRY ==
    (NmWait :> RegWait) @@ (NmFbGet :> RegFbGet) @@ (NmXySet :> RegXySet)
      @@ (NmTrackSet :> RegTrackSet)

\* sum(1 for a in cmd_info["args"].values() if a["user"])
ExpectedUserArgs(cmd_info) ==
    Cardinality({i \in 1..Len(cmd_info.args) : cmd_info.args[i].user})

(***************************************************************************)
(* ScriptingInterface.check_syntax                                         *)
(***************************************************************************)
RECURSIVE NonBlankFrom(_, _)
NonBlankFrom(script, acc) ==
    IF script = <<>> THEN acc
    ELSE NonBlankFrom(Tail(script),
                      IF Strip(Head(script)) /= <<>>
                      THEN Append(acc, Strip(Head(script))) ELSE acc)

\* [line.strip() for line in script.splitlines() if line.strip()]
StrippedLines(script) == NonBlankFrom(script, <<>>)

\* An entry of the error list: the f-string's kind and the values it formats.
SyntaxError(kind, line_num, line, cmd_name, expected, given) ==
    [kind |-> kind, line_num |-> line_num, line |-> line, cmd_name |-> cmd_name,
     expected |-> expected, given |-> given]

UnclosedLoop == SyntaxError("Unclosed 'loop' detected", 0, <<>>, <<>>, 0, 0)

\* a miscount: the command name counted among the given arguments
GivenArgsCountsName(parts) == Len(parts)

\* given_args = len(parts) - 1
GivenArgs(parts) == Len(parts) - 1

\* The body of the for loop: one line, giving the new stack and error list.
CheckLine(line_num, line, stack, errors) ==
    IF StartsWith(line, KwLoop)
    THEN LET parts == Split(line) IN
         IF Len(parts) /= 2 \/ ~IsDigit(parts[2])
         THEN [stack |-> stack,
               errors |-> Append(errors,
                   SyntaxError("invalid loop syntax", line_num, line, <<>>, 0, 0))]
         ELSE [stack |-> Append(stack, "loop"), errors |-> errors]
    ELSE IF line = KwEnd
    THEN IF stack = <<>>
         THEN [stack |-> stack,
               errors |-> Append(errors,
                   SyntaxError("'end' without matching 'loop'", line_num, line, <<>>, 0, 0))]
         ELSE [stack |-> SubSeq(stack, 1, Len(stack) - 1), errors |-> errors]
    ELSE LET parts == Split(line)
             cmd_name == parts[1]
         IN IF cmd_name \notin DOMAIN FUNCTION_REGISTRY
            THEN [stack |-> stack,
                  errors |-> Append(errors,
                      SyntaxError("unknown command", line_num, line, <<>>, 0, 0))]
            ELSE LET expected_user_args == ExpectedUserArgs(FUNCTION_REGISTRY[cmd_name])
                     given_args == GivenArgs(parts)
                 IN IF given_args /= expected_user_args
                    THEN [stack |-> stack,
                          errors |-> Append(errors,
                              SyntaxError("wrong number of arguments", line_num, line,
                                          cmd_name, expected_user_args, given_args))]
                    ELSE [stack |-> stack, errors |-> errors]

RECURSIVE CheckFromStopAtFirst(_, _, _, _)
\* a validator that stops scanning at the first error
CheckFromStopAtFirst(lines, line_num, stack, errors) ==
    IF line_num > Len(lines) \/ errors /= <<>> THEN [stack |-> stack, errors |-> errors]
    ELSE LET r == CheckLine(line_num, lines[line_num], stack, errors)
         IN CheckFromStopAtFirst(lines, line_num + 1, r.stack, r.errors)

RECURSIVE CheckFrom(_, _, _, _)
CheckFrom(lines, line_num, stack, errors) ==
    IF line_num > Len(lines) THEN [stack |-> stack, errors |-> errors]
    ELSE LET r == CheckLine(line_num, lines[line_num], stack, errors)
         IN CheckFrom(lines, line_num + 1, r.stack, r.errors)

\* a validator that reports every loop left open
UnclosedEntryPerLoop(stack) == [k \in 1..Len(stack) |-> UnclosedLoop]

\* if stack: errors.append("Unclosed 'loop' detected")
UnclosedEntries(stack) == IF stack /= <<>> THEN <<UnclosedLoop>> ELSE <<>>

check_syntax(script) ==
    LET r == CheckFrom(StrippedLines(script), 1, <<>>, <<>>)
    IN r.errors \o UnclosedEntries(r.stack)

(***************************************************************************)
(* ScriptingInterface.parse_commands and _parse_block.  A result carries   *)
(* `exc`: the name of the exception the call raised, "" when it returned.  *)
(***************************************************************************)
\* arg_info["type"](token): numpy's scalar constructors on a token
Convert(type, tok) ==
    IF IsDigit(tok) THEN [exc |-> "", val |-> ToNat(tok)]
    ELSE [exc |-> "ValueError", val |-> 0]

RECURSIVE ResolveArgsFillInOrder(_, _, _, _)
\* a resolver that hands the tokens to the slots as they come, user or not
ResolveArgsFillInOrder(specs, user_values, user_index, args) ==
    IF specs = <<>> THEN [exc |-> "", args |-> args]
    ELSE IF user_index > Len(user_values)
    THEN ResolveArgsFillInOrder(Tail(specs), user_values, user_index,
                                Append(args, Head(specs).default))
    ELSE LET v == Convert(Head(specs).type, user_values[user_index]) IN
         IF v.exc /= "" THEN [exc |-> v.exc, args |-> args]
         ELSE ResolveArgsFillInOrder(Tail(specs), user_values, user_index + 1,
                                     Append(args, v.val))

RECURSIVE ResolveArgs(_, _, _, _)
\* the loop over cmd_info["args"].items() of _parse_block
ResolveArgs(specs, user_values, user_index, args) ==
    IF specs = <<>> THEN [exc |-> "", args |-> args]
    ELSE LET arg_info == Head(specs) IN
         IF arg_info.user
         THEN IF user_index > Len(user_values)
              THEN [exc |-> "IndexError", args |-> args]
              ELSE LET v == Convert(arg_info.type, user_values[user_index]) IN
                   IF v.exc /= "" THEN [exc |-> v.exc, args |-> args]
                   ELSE ResolveArgs(Tail(specs), user_values, user_index + 1,
                                    Append(args, v.val))
         ELSE ResolveArgs(Tail(specs), user_values, user_index,
                          Append(args, arg_info.default))

\* INSTANCE_MAP's keys
InstanceClasses == {"Nanonis", "ScriptingInterface"}

\* One command line of _parse_block: the parsed entry, or the exception.
ParseCommandLine(line) ==
    LET parts == Split(line)
        cmd_name == parts[1]
    IN IF cmd_name \notin DOMAIN FUNCTION_REGISTRY
       THEN [exc |-> "KeyError", entry |-> <<>>]
       ELSE LET cmd_info == FUNCTION_REGISTRY[cmd_name]
                r == ResolveArgs(cmd_info.args, Tail(parts), 1, <<>>)
            IN IF r.exc /= "" THEN [exc |-> r.exc, entry |-> <<>>]
               ELSE IF cmd_info.recv /= "" /\ cmd_info.recv \notin InstanceClasses
               THEN [exc |-> "KeyError", entry |-> <<>>]
               ELSE [exc |-> "",
                     entry |-> << [cmd |-> cmd_name, func |-> cmd_info.func,
                                   args |-> r.args] >>]

\* a loop whose body is appended once, whatever its count
ExtendLoopOnce(result, block, count) == result \o block

\* a loop whose repetitions are put in front of what precedes it
ExtendLoopInFront(result, block, count) == Repeat(block, count) \o result

\* result.extend(block * count)
ExtendLoop(result, block, count) == result \o Repeat(block, count)

RECURSIVE ParseFrom(_, _, _, _)
\* _parse_block from the evaluation of INSTANCE_MAP on; indices are 1-based
ParseFrom(lines, index, result, hasNanonis) ==
    IF ~hasNanonis
    THEN [exc |-> "AttributeError", result |-> <<>>, index |-> index]
    ELSE IF index > Len(lines)
    THEN [exc |-> "", result |-> result, index |-> index]
    ELSE LET line == lines[index] IN
         IF StartsWith(line, KwLoop)
         THEN LET parts == Split(line) IN
              IF Len(parts) /= 2 \/ ~IsDigit(parts[2])
              THEN [exc |-> "ValueError", result |-> <<>>, index |-> index]
              ELSE LET count == ToNat(parts[2])
                       sub == ParseFrom(lines, index + 1, <<>>, hasNanonis)
                   IN IF sub.exc /= "" THEN sub
                      ELSE ParseFrom(lines, sub.index,
                                     ExtendLoop(result, sub.result, count), hasNanonis)
         ELSE IF line = KwEnd
         THEN [exc |-> "", result |-> result, index |-> index + 1]
         ELSE LET c == ParseCommandLine(line) IN
              IF c.exc /= ""
              THEN [exc |-> c.exc, result |-> <<>>, index |-> index]
              ELSE ParseFrom(lines, index + 1, result \o c.entry, hasNanonis)

_parse_block(lines, index, hasNanonis) == ParseFrom(lines, index, <<>>, hasNanonis)

RECURSIVE ObjectsFrom(_, _, _)
\* The dict objects behind the entries _parse_block returns, for lines it
\* parses without raising.  A command line is reached once and its iteration
\* builds one dict with one args list (result.append({...})): that object is
\* named by the index of its line.  `block * count` builds a list that refers
\* count times to the objects of block, and extend appends those references.
ObjectsFrom(lines, index, objs) ==
    IF index > Len(lines)
    THEN [objs |-> objs, index |-> index]
    ELSE LET line == lines[index] IN
         IF StartsWith(line, KwLoop)
         THEN LET count == ToNat(Split(line)[2])
                  sub == ObjectsFrom(lines, index + 1, <<>>)
              IN ObjectsFrom(lines, sub.index, ExtendLoop(objs, sub.objs, count))
         ELSE IF line = KwEnd
         THEN [objs |-> objs, index |-> index + 1]
         ELSE ObjectsFrom(lines, index + 1, Append(objs, index))

\* entry["args"].append(value) on the entry at position i of the flat list:
\* the list as it reads afterwards, every position that refers to the same
\* object showing the change
AppendArg(commands, objs, i, value) ==
    [k \in 1..Len(commands) |->
        IF objs[k] = objs[i]
        THEN [commands[k] EXCEPT !.args = Append(@, value)]
        ELSE commands[k]]

\* a parser that expands without validating first
parse_commands_unvalidated(script, hasNanonis) ==
    LET b == _parse_block(StrippedLines(script), 1, hasNanonis) IN
    IF b.exc /= ""
    THEN [exc |-> b.exc, none |-> FALSE, commands |-> <<>>, errors |-> <<>>]
    ELSE [exc |-> "", none |-> FALSE, commands |-> b.result, errors |-> <<>>]

\* (commands, errors); `none` says that commands is None
parse_commands(script, hasNanonis) ==
    LET errors == check_syntax(script) IN
    IF errors /= <<>>
    THEN [exc |-> "", none |-> TRUE, commands |-> <<>>, errors |-> errors]
    ELSE LET b == _parse_block(StrippedLines(script), 1, hasNanonis) IN
         IF b.exc /= ""
         THEN [exc |-> b.exc, none |-> FALSE, commands |-> <<>>, errors |-> <<>>]
         ELSE [exc |-> "", none |-> FALSE, commands |-> b.result, errors |-> <<>>]

\* The number of parameters the bound function accepts (self excluded).
Arity(func) ==
    CASE func = "ScriptingInterface.wait" -> 1
      [] func = "ScriptingInterface.setZ" -> 1
      [] func = "Nanonis.ZCtrl_OnOffGet" -> 0
      [] func = "Nanonis.AtomTrack_CtrlSet" -> 2

\* func(*args) raises TypeError when the argument count is not the arity
CallRaises(entry) == Len(entry.args) /= Arity(entry.func)

RECURSIVE InvokeAll(_, _)
\* the for loop of ScriptingInterface.execute: the commands invoked, in order
InvokeAll(commands, invoked) ==
    IF commands = <<>> THEN [exc |-> "", invoked |-> invoked]
    ELSE IF CallRaises(Head(commands))
         THEN [exc |-> "TypeError", invoked |-> Append(invoked, Head(commands).cmd)]
         ELSE InvokeAll(Tail(commands), Append(invoked, Head(commands).cmd))

\* ScriptingInterface.execute(script): what it invoked and how it ended
execute(script, hasNanonis) ==
    LET p == parse_commands(script, hasNanonis) IN
    IF p.exc /= "" THEN [exc |-> p.exc, invoked |-> <<>>]
    ELSE IF p.none THEN [exc |-> "TypeError", invoked |-> <<>>]
    ELSE LET r == InvokeAll(p.commands, <<>>) IN
         IF r.exc = "" /\ p.commands = <<>>
         THEN [exc |-> "UnboundLocalError", invoked |-> r.invoked]
         ELSE r

(***************************************************************************)
(* TCPClient.query.  The first component of the returned tuple is a        *)
(* Python value whose type matters: PyStr(t) is the str t, PyList(xs) the  *)
(* list xs.                                                                *)
(***************************************************************************)
PyStr(t) == [py |-> "str", v |-> t]

PyList(xs) == [py |-> "list", v |-> xs]

TxtNone == <<"N", "o", "n", "e">>

TxtMalformed == <<"M", "a", "l", "f", "o", "r", "m", "e", "d", " ", "r", "e", "s", "p", "o", "n", "s", "e">>

\* str(e) of a connection or IO exception
TxtException == <<"r", "e", "f", "u", "s", "e", "d">>

\* a reply is taken as well-formed by a client that accepts three fields or more
MalformedIfFewer(parts) == Len(parts) < 3

\* len(parts) != 3
Malformed(parts) == Len(parts) /= 3

\* query's handling of the bytes read up to the peer's close, decoded
QueryReply(response_data) ==
    LET decoded == Strip(response_data)
        parts == SplitOn(decoded, "|")
    IN IF Malformed(parts)
       THEN [error |-> PyStr(TxtMalformed), response |-> decoded, variables |-> <<>>]
       ELSE LET error == IF parts[1] = TxtNone THEN <<>> ELSE parts[1]
                response == IF parts[2] = TxtNone THEN <<>> ELSE parts[2]
                variable == IF parts[3] = TxtNone THEN <<>> ELSE SplitOn(parts[3], ",")
            IN [error |-> PyList(<<error>>), response |-> response,
                variables |-> variable]

\* the except branch of query
QueryException == [error |-> PyStr(TxtException), response |-> <<>>, variables |-> <<>>]

\* the statements of query and of send that can raise a connection or IO
\* exception
RaisePoints(op) ==
    IF op = "query" THEN {"connect", "sendall", "recv", "decode"}
    ELSE {"connect", "sendall"}

\* a client whose try block begins after the connection is made
InTryAfterConnect(op, where) == where /= "connect"

\* the statement is inside the try block: all of them are, in both methods
InTry(op, where) == TRUE

\* a client that closes its socket as the last statement of the block
ClosedAtEndOfBlock(op, how) == how \notin {"connect", "sendall", "recv"}

\* `with socket.socket(...) as s:` -- the socket's __exit__ closes it however
\* the block is left: at its end ("done"), or by the statement that raised
ClosedOnExit(op, how) == TRUE

\* the socket that call n created, as it is when the call returns; "decode"
\* raises after the block
SocketOf(op, n, how) == [call |-> n, open |-> ~ClosedOnExit(op, how)]

\* send's return on success; no recv is made
SendDone == [error |-> PyStr(<<>>), response |-> <<>>, variables |-> <<>>]

\* the except branch of send
SendException == [error |-> PyStr(TxtException), response |-> <<>>, variables |-> <<>>]

(***************************************************************************)
(* State.                                                                  *)
(***************************************************************************)
VARIABLES
    \* -- ScriptingInterface, called directly (the parser's inputs and results)
    script,        \* the text given to check_syntax / parse_commands / execute
    hasNanonis,    \* self.nanonis is set (connect() has succeeded once)
    ppc,           \* which call has been made: "input", "checked", "parsed", "executed"
    errors,        \* what check_syntax returned
    parsed,        \* what parse_commands returned
    direct,        \* what execute did
    \* -- TCPClient.query
    wire,          \* the bytes the peer sends before closing, decoded
    qpc,           \* "ready", then "replied" or "failed" (query), "sent" or
                   \* "send failed" (send), "raised" (an exception left the call)
    qres,          \* what query returned
    calls,         \* the number of send and query calls made
    sockets,       \* the sockets the calls created, in order: which call
                   \* created it and whether it is open
    \* -- runScriptThread and AunisUI
    t_script,      \* threadScript.script
    cancelScript,  \* threadScript.cancelScript
    wpc,           \* the worker: "idle", "started", "exec", "inflight", "ending"
    commands,      \* the worker's flat command list
    widx,          \* the index of the worker's current entry in commands
    runNo,         \* the number of the run the worker is in (counts thread starts)
    sigQueue,      \* signals emitted by the worker, not yet delivered to the UI
    uiStatus,      \* the text of the scripting status label
    uiLog,         \* the log entries logCommand has written, in order
    uiErrors,      \* the number of error message boxes shown
    emitted,       \* every signal the worker has emitted, in order
    ranScript,     \* ranScript[r]: the script run r read from threadScript.script
    invoked,       \* the capabilities the worker has invoked: <<run, index>>
    starts,        \* the number of start requests made
    cancelReq,     \* k, when stop set the flag between commands k and k+1 of this
                   \* run (the first time); -1 when it has not
    returned,      \* what the invoked capabilities returned, in order:
                   \* [run, idx, error, nvars]
    upc            \* the UI thread: "idle", or "direct" inside a direct device call

parserVars == <<script, ppc, errors, parsed, direct>>

queryVars == <<wire, qpc, qres, calls, sockets>>

engineVars == <<t_script, cancelScript, wpc, commands, widx, runNo, sigQueue,
                uiStatus, uiLog, uiErrors, emitted, ranScript, invoked, starts,
                cancelReq, returned, upc>>

vars == <<script, hasNanonis, ppc, errors, parsed, direct, wire, qpc, qres, calls, sockets,
          t_script, cancelScript, wpc, commands, widx, runNo, sigQueue,
          uiStatus, uiLog, uiErrors, emitted, ranScript, invoked, starts, cancelReq,
          returned, upc>>

\* all sequences over S of length at most n
SeqsUpTo(S, n) == UNION {[1..k -> S] : k \in 0..n}

NoResult == [exc |-> "", none |-> FALSE, commands |-> <<>>, errors |-> <<>>]

NoDirect == [exc |-> "", invoked |-> <<>>]

NoQuery == [error |-> PyStr(<<>>), response |-> <<>>, variables |-> <<>>]

\* the parser is not in use
ParserOff ==
    /\ script = <<>> /\ ppc = "off" /\ errors = <<>>
    /\ parsed = NoResult /\ direct = NoDirect

\* the remote client is not in use
QueryOff == wire = <<>> /\ qpc = "off" /\ qres = NoQuery /\ calls = 0 /\ sockets = <<>>

\* AunisUI.__init__ and runScriptThread.__init__
EngineInit ==
    /\ t_script = <<>>
    /\ cancelScript = FALSE
    /\ wpc = "idle"
    /\ commands = <<>>
    /\ widx = 0
    /\ runNo = 0
    /\ sigQueue = <<>>
    /\ uiStatus = ""
    /\ uiLog = <<>>
    /\ uiErrors = 0
    /\ emitted = <<>>
    /\ ranScript = <<>>
    /\ invoked = <<>>
    /\ starts = 0
    /\ cancelReq = -1
    /\ returned = <<>>
    /\ upc = "idle"

(***************************************************************************)
(* The parser called directly: SpecParse.                                  *)
(***************************************************************************)
LnLoop2 == <<"l", "o", "o", "p", " ", "2">>

LnLoop3 == <<"l", "o", "o", "p", " ", "3">>

LnLoop0 == <<"l", "o", "o", "p", " ", "0">>

LnLoopNoCount == <<"l", "o", "o", "p", " ", "x">>

LnLoopX3 == <<"l", "o", "o", "p", "X", " ", "3">>

LnEnd == <<"e", "n", "d">>

LnBlank == <<" ">>

LnWait1 == <<"w", "a", "i", "t", " ", "1">>

LnWaitPadded == <<" ", "w", "a", "i", "t", " ", " ", "7", " ">>

LnWaitNoArg == <<"w", "a", "i", "t">>

LnWaitX == <<"w", "a", "i", "t", " ", "x">>

LnFoo == <<"f", "o", "o", " ", "1">>

LnFbGet == NmFbGet

LnFbGet1 == NmFbGet \o <<" ", "1">>

LnXySet12 == NmXySet \o <<" ", "1", " ", "2">>

LnTrackSet7 == NmTrackSet \o <<" ", "7">>

\* the lines of the scripts given to the validator
ValLines ==
    {LnLoop2, LnLoop0, LnLoopNoCount, LnLoopX3, LnEnd, LnBlank,
     LnWaitPadded, LnWaitNoArg, LnWaitX, LnFoo, LnFbGet1, LnXySet12, LnTrackSet7}

\* the lines of the longer scripts given to the expander
ExpLines == {LnLoop2, LnLoop3, LnEnd, LnWait1, LnFbGet}

Scripts == SeqsUpTo(ValLines, MaxLines) \cup SeqsUpTo(ExpLines, MaxExpLines)

InitParse ==
    /\ script \in Scripts
    /\ hasNanonis \in BOOLEAN
    /\ ppc = "input"
    /\ errors = <<>>
    /\ parsed = NoResult
    /\ direct = NoDirect
    /\ QueryOff
    /\ EngineInit

CheckSyntax ==
    /\ ppc = "input"
    /\ errors' = check_syntax(script)
    /\ ppc' = "checked"
    /\ UNCHANGED <<script, hasNanonis, parsed, direct, queryVars, engineVars>>

ParseCommands ==
    /\ ppc = "checked"
    /\ parsed' = parse_commands(script, hasNanonis)
    /\ ppc' = "parsed"
    /\ UNCHANGED <<script, hasNanonis, errors, direct, queryVars, engineVars>>

Execute ==
    /\ ppc = "parsed"
    /\ direct' = execute(script, hasNanonis)
    /\ ppc' = "executed"
    /\ UNCHANGED <<script, hasNanonis, errors, parsed, queryVars, engineVars>>

NextParse == CheckSyntax \/ ParseCommands \/ Execute

SpecParse == InitParse /\ [][NextParse]_vars

(***************************************************************************)
(* The execution engine: runScriptThread (the worker) and AunisUI (the     *)
(* initiator).  The worker's signals reach the UI thread through queued    *)
(* connections: sigQueue, delivered in order by the UI's event loop.       *)
(***************************************************************************)
\* the scripts the user may have in the editor when Run is clicked
EditorScripts ==
    { <<LnFbGet, LnLoop2, LnWait1, LnEnd>>,
      <<LnBlank, LnEnd>>,
      <<LnLoop2, LnFoo>>,
      <<LnXySet12, LnWait1>> }

Signal(sig, run, kind, idx, text, errs) ==
    [sig |-> sig, run |-> run, kind |-> kind, idx |-> idx, text |-> text, errs |-> errs]

\* scriptStatus.emit(text)
StatusSignal(run, text) == Signal("scriptStatus", run, "", 0, text, <<>>)

\* errorMsg.emit("SYNTAX ERRORS:\n" + the errors)
ErrorSignal(run, errs) == Signal("errorMsg", run, "", 0, "SYNTAX ERRORS", errs)

\* logSignal.emit(kind, message, status) for the command at idx
LogSignal(run, kind, idx, status) == Signal("logSignal", run, kind, idx, status, <<>>)

\* What a capability may return: errorString and the number of variables.
Outcomes(func) ==
    IF func = "ScriptingInterface.wait"
    THEN {[error |-> "", nvars |-> 0]}
    ELSE {[error |-> "", nvars |-> 1], [error |-> "device error", nvars |-> 0]}

\* status = errorString if len(errorString) != 0 else "OK"
StatusOf(errorString) == IF errorString /= "" THEN errorString ELSE "OK"

\* QThread.isRunning()
IsRunning == wpc /= "idle"

\* a thread object that starts a new run whether or not one is in progress
StartsAlways == TRUE

\* QThread.start() starts the thread only when it is not running
StartsThread == ~IsRunning

\* the commands of the current run invoked so far
InvokedInRun == Cardinality({i \in 1..Len(invoked) : invoked[i][1] = runNo})

\* the worker has invoked command k of its list and not yet checked the flag
\* for command k+1 (1 <= k < len(commands)), and the flag is not set
BetweenCommands ==
    /\ cancelScript = FALSE
    /\ \/ wpc = "inflight" /\ widx < Len(commands)
       \/ wpc = "exec" /\ widx > 1 /\ widx <= Len(commands)
    /\ InvokedInRun = (IF wpc = "inflight" THEN widx ELSE widx - 1)

\* AunisUI.connect, when ScriptingInterface.connect succeeds
Connect ==
    /\ upc = "idle"
    /\ ~hasNanonis
    /\ hasNanonis' = TRUE
    /\ UNCHANGED <<parserVars, queryVars, engineVars>>

\* AunisUI.runScript with the text s in the editor
RunScript(s) ==
    /\ upc = "idle"
    /\ starts < MaxStarts
    /\ starts' = starts + 1
    /\ t_script' = s
    /\ cancelScript' = FALSE
    /\ IF StartsThread
       THEN /\ wpc' = "started"
            /\ runNo' = runNo + 1
            /\ cancelReq' = -1
       ELSE UNCHANGED <<wpc, runNo, cancelReq>>
    /\ UNCHANGED <<hasNanonis, parserVars, queryVars, returned, upc, commands, widx, sigQueue,
                   uiStatus, uiLog, uiErrors, emitted, ranScript, invoked>>

\* AunisUI.stopScript while the thread is running
StopScript ==
    /\ upc = "idle"
    /\ IsRunning
    /\ cancelScript' = TRUE
    /\ uiStatus' = "Stopping..."
    /\ cancelReq' = IF cancelReq = -1 /\ BetweenCommands THEN InvokedInRun ELSE cancelReq
    /\ UNCHANGED <<hasNanonis, parserVars, queryVars, returned, upc, t_script, wpc, commands, widx,
                   runNo, sigQueue, uiLog, uiErrors, emitted, ranScript, invoked,
                   starts>>

\* the UI's event loop delivers the oldest queued signal to its slot:
\* updateScriptingStatus, logCommand or showErrorMessage
Deliver ==
    /\ upc = "idle"
    /\ sigQueue /= <<>>
    /\ sigQueue' = Tail(sigQueue)
    /\ LET m == Head(sigQueue) IN
       /\ uiStatus' = IF m.sig = "scriptStatus" THEN m.text ELSE uiStatus
       /\ uiLog' = IF m.sig = "logSignal" THEN Append(uiLog, m) ELSE uiLog
       /\ uiErrors' = IF m.sig = "errorMsg" THEN uiErrors + 1 ELSE uiErrors
    /\ UNCHANGED <<hasNanonis, parserVars, queryVars, returned, upc, t_script, cancelScript, wpc,
                   commands, widx, runNo, emitted, ranScript, invoked, starts,
                   cancelReq>>

\* the worker emits the signals sigs, in order
Emit(sigs) ==
    /\ sigQueue' = sigQueue \o sigs
    /\ emitted' = emitted \o sigs

\* runScriptThread.run up to the call of execute and its first emit
WorkerRun ==
    /\ wpc = "started"
    /\ ranScript' = Append(ranScript, t_script)
    /\ LET p == parse_commands(t_script, hasNanonis) IN
       IF p.exc /= ""
       THEN \* parse_commands raised: the thread ends without a signal
            /\ wpc' = "ending"
            /\ UNCHANGED <<commands, widx, sigQueue, emitted>>
       ELSE IF p.none
       THEN /\ Emit(<<ErrorSignal(runNo, p.errors), StatusSignal(runNo, "Syntax errors")>>)
            /\ wpc' = "ending"
            /\ UNCHANGED <<commands, widx>>
       ELSE /\ Emit(<<StatusSignal(runNo, "Running")>>)
            /\ commands' = p.commands
            /\ widx' = 1
            /\ wpc' = "exec"
    /\ UNCHANGED <<hasNanonis, parserVars, queryVars, returned, upc, t_script, cancelScript, runNo,
                   uiStatus, uiLog, uiErrors, invoked, starts, cancelReq>>

\* one iteration of the for loop up to the call: the cancellation check, then
\* func(*args), which raises TypeError at once on an arity mismatch
WorkerNext ==
    /\ wpc = "exec"
    /\ widx <= Len(commands)
    /\ IF cancelScript = FALSE
       THEN /\ invoked' = Append(invoked, <<runNo, widx>>)
            /\ wpc' = IF CallRaises(commands[widx]) THEN "ending" ELSE "inflight"
            /\ widx' = widx
       ELSE /\ widx' = widx + 1
            /\ UNCHANGED <<invoked, wpc>>
    /\ UNCHANGED <<hasNanonis, parserVars, queryVars, returned, upc, t_script, cancelScript, commands,
                   runNo, sigQueue, uiStatus, uiLog, uiErrors, emitted, ranScript,
                   starts, cancelReq>>

\* a worker that leaves the for loop when a command reports an error
NextEntryUnlessError(idx, cmds, errorString) ==
    IF errorString /= "" THEN Len(cmds) + 1 ELSE idx + 1

\* `for entry in commands`: the next entry, whatever the command returned
NextEntry(idx, cmds, errorString) == idx + 1

\* the capability returns; the Request entry and, with variables, the Response
WorkerReturn ==
    /\ wpc = "inflight"
    /\ \E r \in Outcomes(commands[widx].func) :
          /\ Emit(<<LogSignal(runNo, "Request", widx, StatusOf(r.error))>>
                  \o IF r.nvars > 0
                     THEN <<LogSignal(runNo, "Response", widx, "")>> ELSE <<>>)
          /\ returned' = Append(returned, [run |-> runNo, idx |-> widx,
                                            error |-> r.error, nvars |-> r.nvars])
          /\ widx' = NextEntry(widx, commands, r.error)
    /\ wpc' = "exec"
    /\ UNCHANGED <<hasNanonis, parserVars, queryVars, upc, t_script, cancelScript, commands,
                   runNo, uiStatus, uiLog, uiErrors, ranScript, invoked, starts,
                   cancelReq>>

\* the for loop is exhausted: scriptStatus.emit('Finished')
WorkerFinish ==
    /\ wpc = "exec"
    /\ widx > Len(commands)
    /\ Emit(<<StatusSignal(runNo, "Finished")>>)
    /\ wpc' = "ending"
    /\ UNCHANGED <<hasNanonis, parserVars, queryVars, returned, upc, t_script, cancelScript, commands,
                   widx, runNo, uiStatus, uiLog, uiErrors, ranScript, invoked, starts,
                   cancelReq>>

\* run() has returned or raised: the thread is no longer running
WorkerExit ==
    /\ wpc = "ending"
    /\ wpc' = "idle"
    /\ UNCHANGED <<hasNanonis, parserVars, queryVars, returned, upc, t_script, cancelScript, commands,
                   widx, runNo, sigQueue, uiStatus, uiLog, uiErrors, emitted, ranScript,
                   invoked, starts, cancelReq>>

\* the capabilities that talk to the device over self.nanonis
UsesDevice(func) == func /= "ScriptingInterface.wait"

\* AunisUI.moveTip*, switchFBOnOff, getFBStatus or updateStatus: the UI thread,
\* in the slot of a click, calls the device through self.nni (no test of the
\* script thread); without self.nanonis the slot raises at once
DirectCall ==
    /\ upc = "idle"
    /\ hasNanonis
    /\ upc' = "direct"
    /\ UNCHANGED <<hasNanonis, parserVars, queryVars, t_script, cancelScript, wpc,
                   commands, widx, runNo, sigQueue, uiStatus, uiLog, uiErrors, emitted,
                   ranScript, invoked, starts, cancelReq, returned>>

\* the direct call returns to the event loop
DirectReturn ==
    /\ upc = "direct"
    /\ upc' = "idle"
    /\ UNCHANGED <<hasNanonis, parserVars, queryVars, t_script, cancelScript, wpc,
                   commands, widx, runNo, sigQueue, uiStatus, uiLog, uiErrors, emitted,
                   ranScript, invoked, starts, cancelReq, returned>>

Init ==
    /\ hasNanonis = FALSE
    /\ ParserOff
    /\ QueryOff
    /\ EngineInit

Next ==
    \/ Connect
    \/ \E s \in EditorScripts : RunScript(s)
    \/ StopScript
    \/ Deliver
    \/ WorkerRun
    \/ WorkerNext
    \/ WorkerReturn
    \/ WorkerFinish
    \/ WorkerExit

Spec == Init /\ [][Next]_vars

(***************************************************************************)
(* The engine with a scheduler that lets the worker thread run: every step *)
(* of the thread that can be taken is taken in the end, and every          *)
(* capability that was called returns (WorkerReturn).  Nothing is assumed  *)
(* of the user or of the UI's event loop.  WorkerRun is enabled exactly    *)
(* when wpc = "started" and always changes wpc, so its weak fairness is    *)
(* written with that guard in the place of ENABLED <<WorkerRun>>_vars.     *)
(***************************************************************************)
WorkerFairness ==
    /\ (<>[](wpc = "started") => []<><<WorkerRun>>_vars)
    /\ WF_vars(WorkerNext)
    /\ WF_vars(WorkerReturn)
    /\ WF_vars(WorkerFinish)
    /\ WF_vars(WorkerExit)

SpecFair == Init /\ [][Next]_vars /\ WorkerFairness

(***************************************************************************)
(* The engine together with the direct controls of the window: the user    *)
(* may click a tip-move, feedback or refresh button at any time.           *)
(***************************************************************************)
NextDirect ==
    \/ Next
    \/ DirectCall
    \/ DirectReturn

SpecDirect == Init /\ [][NextDirect]_vars

(***************************************************************************)
(* ScriptingInterface used either way: called directly on a script, or     *)
(* through the worker.  A behaviour of SpecBoth is one of SpecParse or one *)
(* of Spec.                                                                *)
(***************************************************************************)
InitBoth == InitParse \/ Init

NextBoth ==
    \/ NextParse
    \/ (ppc = "off" /\ Next)

SpecBoth == InitBoth /\ [][NextBoth]_vars

(***************************************************************************)
(* Claims about the engine (Spec, SpecBoth).                               *)
(***************************************************************************)
\* the signals run r has emitted, in order
EmittedBy(r) == SelectSeq(emitted, LAMBDA m : m.run = r)

\* the runs that have read their script
RunsRead == 1..Len(ranScript)

\* C1: a script whose validation yields an error invokes nothing: the worker
\* run reports the errors and the status 'Syntax errors' and emits no Running,
\* no log entry and no Finished; parse_commands returns no command list and
\* the errors; ScriptingInterface.execute invokes no capability.
C1_SyntaxErrorsBlockTheRun ==
    /\ \A r \in RunsRead :
           check_syntax(ranScript[r]) /= <<>> =>
               /\ \A i \in 1..Len(invoked) : invoked[i][1] /= r
               /\ EmittedBy(r) = <<ErrorSignal(r, check_syntax(ranScript[r])),
                                   StatusSignal(r, "Syntax errors")>>
    /\ (ppc \in {"parsed", "executed"} /\ errors /= <<>>) =>
           /\ parsed.exc = ""
           /\ parsed.none
           /\ parsed.errors = errors
    /\ (ppc = "executed" /\ errors /= <<>>) => direct.invoked = <<>>

\* a run of a script with two errors has ended and both were shown
C1_WitnessWorker ==
    /\ runNo = 1
    /\ wpc = "idle"
    /\ sigQueue = <<>>
    /\ ranScript = << <<LnLoop2, LnFoo>> >>
    /\ uiErrors = 1
    /\ uiStatus = "Syntax errors"

\* the entries of a sequence of <<run, ...>> or [run |-> ...] are in run order
RunsInOrder(runs) == \A i, j \in 1..Len(runs) : i < j => runs[i] <= runs[j]

\* C2: if cancellation is requested after command k has been invoked and
\* before command k+1 is checked, commands 1..k produce their log entries, no
\* command after k is invoked or logged, and the run's final status is Finished.
C2_CancelBetweenCommands ==
    cancelReq >= 1 =>
        /\ \A i \in 1..Len(invoked) :
               invoked[i][1] = runNo => invoked[i][2] <= cancelReq
        /\ \A i \in 1..Len(emitted) :
               (emitted[i].run = runNo /\ emitted[i].sig = "logSignal")
                   => emitted[i].idx <= cancelReq
        /\ (wpc = "idle" /\ sigQueue = <<>>) =>
               /\ \A k \in 1..cancelReq :
                      \E i \in 1..Len(uiLog) :
                          /\ uiLog[i].run = runNo
                          /\ uiLog[i].idx = k
                          /\ uiLog[i].kind = "Request"
               /\ uiStatus = "Finished"

\* C3: a start request made while a run is in progress begins no second run:
\* the worker and its run are left as they are, the capabilities are invoked
\* run after run, and the log never holds entries of two runs interleaved.
C3_NoSecondRun ==
    /\ [][(starts' /= starts /\ IsRunning) =>
             /\ runNo' = runNo
             /\ wpc' = wpc
             /\ commands' = commands
             /\ widx' = widx
             /\ invoked' = invoked
             /\ emitted' = emitted]_vars
    /\ [](/\ RunsInOrder([i \in 1..Len(invoked) |-> invoked[i][1]])
          /\ RunsInOrder([i \in 1..Len(emitted) |-> emitted[i].run])
          /\ RunsInOrder([i \in 1..Len(uiLog) |-> uiLog[i].run]))

\* Run was clicked again while the first run had logged a command and went on
C3_Witness ==
    /\ starts = 2
    /\ runNo = 1
    /\ wpc = "inflight"
    /\ Len(uiLog) >= 1

\* C4: a start request made while a run is Running is rejected with a busy
\* condition reported to the initiator: an error notification or a distinct
\* visible outcome, not silence.
C4_BusyReported ==
    [][(starts' /= starts /\ IsRunning) =>
          \/ uiErrors' /= uiErrors
          \/ uiStatus' /= uiStatus
          \/ sigQueue' /= sigQueue]_vars

\* s is an initial part of t
IsPrefix(s, t) == Len(s) <= Len(t) /\ SubSeq(t, 1, Len(s)) = s

\* the log entries run r has emitted, in order
LogOf(r) == SelectSeq(emitted, LAMBDA m : m.run = r /\ m.sig = "logSignal")

\* the positions in log of the entries of the given kind for command i
EntriesOf(log, kind, i) == {p \in 1..Len(log) : log[p].kind = kind /\ log[p].idx = i}

\* command i of run r is in flight: called, and the call has not yet ended
InFlight(r, i) == r = runNo /\ wpc = "inflight" /\ widx = i

\* C11: during a run the log is append-only and in execution order: every
\* invoked command, once its call is over, has exactly one Request entry,
\* followed immediately by exactly one Response entry if and only if it returned
\* a non-empty variable list; no entry of command i+1 precedes an entry of
\* command i; and a command that was not invoked has no entry.
C11_LogInExecutionOrder ==
    /\ [][IsPrefix(emitted, emitted') /\ IsPrefix(uiLog, uiLog')]_vars
    /\ [](\A r \in 1..runNo :
            LET log == LogOf(r) IN
            /\ \A k \in 1..Len(invoked) :
                   (invoked[k][1] = r /\ ~InFlight(r, invoked[k][2])) =>
                       Cardinality(EntriesOf(log, "Request", invoked[k][2])) = 1
            /\ \A k \in 1..Len(returned) :
                   returned[k].run = r =>
                       LET i == returned[k].idx IN
                       /\ Cardinality(EntriesOf(log, "Response", i))
                              = (IF returned[k].nvars > 0 THEN 1 ELSE 0)
                       /\ \A p \in EntriesOf(log, "Response", i) :
                              p - 1 \in EntriesOf(log, "Request", i)
            /\ \A p, q \in 1..Len(log) : p < q => log[p].idx <= log[q].idx
            /\ \A p \in 1..Len(log) :
                   \E k \in 1..Len(invoked) : invoked[k] = <<r, log[p].idx>>
            /\ IsPrefix(SelectSeq(uiLog, LAMBDA m : m.run = r), log))

\* C12: a command whose capability reports a non-empty errorText does not
\* abort the script: the error is the status of that command's Request entry,
\* the worker goes on to the next entry of the same flat sequence, and every
\* entry the worker reaches while cancellation is not requested is invoked.
C12_ErrorDoesNotAbort ==
    /\ [](\A k \in 1..Len(returned) :
            returned[k].error /= "" =>
                \E p \in 1..Len(emitted) :
                    emitted[p] = LogSignal(returned[k].run, "Request", returned[k].idx,
                                           returned[k].error))
    /\ [][returned' /= returned =>
             /\ wpc' = "exec"
             /\ widx' = returned'[Len(returned')].idx + 1
             /\ commands' = commands]_vars
    /\ [][(/\ wpc = "exec"
           /\ widx <= Len(commands)
           /\ cancelScript = FALSE
           /\ (wpc' /= wpc \/ widx' /= widx)) =>
             invoked' = Append(invoked, <<runNo, widx>>)]_vars

\* the first command reported an error, the other two were invoked and logged,
\* and the run finished
C12_Witness ==
    /\ wpc = "idle"
    /\ sigQueue = <<>>
    /\ runNo = 1
    /\ uiStatus = "Finished"
    /\ Len(returned) = 3
    /\ returned[1].error = "device error"
    /\ invoked = << <<1, 1>>, <<1, 2>>, <<1, 3>> >>
    /\ [p \in 1..Len(uiLog) |-> uiLog[p].text] = <<"device error", "OK", "OK">>

\* C13: a scripted command invocation by the worker and a direct invocation
\* from the initiator are never both in flight against the device connection.
C13_DirectAndScriptedSerialized ==
    ~(/\ upc = "direct"
      /\ wpc = "inflight"
      /\ UsesDevice(commands[widx].func))

\* C20: the status shown follows the run's state machine for every timing of
\* the stop request: Stopping is entered only from Running, and the status
\* that follows Stopping is Finished, never Running or Syntax errors.
C20_StatusStateMachine ==
    [][uiStatus' /= uiStatus =>
          /\ uiStatus' = "Stopping..." => uiStatus = "Running"
          /\ uiStatus = "Stopping..." => uiStatus' = "Finished"]_vars

\* C26: a start request made while a run is in progress leaves that run as it
\* is, the cancellation flag included: a flag that was set for the running
\* script stays set, and a run whose flag is set invokes no further command.
C26_StartKeepsCancellation ==
    /\ [][(starts' /= starts /\ IsRunning) =>
             /\ cancelScript' = cancelScript
             /\ wpc' = wpc
             /\ commands' = commands
             /\ widx' = widx]_vars
    /\ [][(cancelScript = TRUE /\ IsRunning) => invoked' = invoked]_vars

\* C28: for every registry entry whose capability is a method of the
\* scripting interface, the number of resolved arguments (the entry's
\* ArgSpecs) is the number of parameters of the bound method, so no command
\* of this kind in a worker's list fails at its call with an arity mismatch.
C28_MethodArityMatches ==
    \A k \in 1..Len(commands) :
        FUNCTION_REGISTRY[commands[k].cmd].recv = "ScriptingInterface" =>
            /\ Len(FUNCTION_REGISTRY[commands[k].cmd].args) = Arity(commands[k].func)
            /\ ~CallRaises(commands[k])

\* run r has emitted the status text
EmittedStatus(r, text) == \E i \in 1..Len(emitted) : emitted[i] = StatusSignal(r, text)

\* C21: every run that sets the status Running sets the status Finished in
\* the end, whether its sequence is exhausted or it is cancelled, when every
\* invoked capability terminates; Finished is emitted once per run, after the
\* run's last log entry.
C21_RunningLeadsToFinished ==
    /\ \A r \in 1..MaxStarts :
           EmittedStatus(r, "Running") ~> EmittedStatus(r, "Finished")
    /\ [](\A r \in 1..runNo :
            LET sigs == EmittedBy(r) IN
            \A i \in 1..Len(sigs) :
                sigs[i] = StatusSignal(r, "Finished") => i = Len(sigs))

\* C29: once the worker of a run has ended and its signals are delivered, the
\* status shown is the run's terminal status (Finished, or Syntax errors) and
\* stays so until the next start: however a stop request interleaves with the
\* worker's last status signal, the status is not left at 'Stopping...'.
C29_TerminalStatusShown ==
    (wpc = "idle" /\ sigQueue = <<>> /\ runNo >= 1) =>
        \A text \in {"Finished", "Syntax errors"} :
            EmittedStatus(runNo, text) => uiStatus = text

(***************************************************************************)
(* Claims about validation and expansion (SpecParse).                      *)
(***************************************************************************)
\* a line the script language calls a loop directive: `loop <digits>`
IsLoopDirective(rawLine) ==
    LET parts == Split(rawLine)
    IN Len(parts) = 2 /\ parts[1] = KwLoop /\ IsDigit(parts[2])

RECURSIVE OpenLoopsAfter(_, _)
\* the number of loops open after the first n raw lines of the script
OpenLoopsAfter(rawLines, n) ==
    IF n = 0 THEN 0
    ELSE LET d == OpenLoopsAfter(rawLines, n - 1) IN
         IF IsLoopDirective(rawLines[n]) THEN d + 1
         ELSE IF Strip(rawLines[n]) = KwEnd THEN (IF d > 0 THEN d - 1 ELSE 0)
         ELSE d

\* the raw lines that are an `end` with no loop open before them
StrayEnds(rawLines) ==
    {i \in 1..Len(rawLines) :
        Strip(rawLines[i]) = KwEnd /\ OpenLoopsAfter(rawLines, i - 1) = 0}

Elems(seq) == {seq[i] : i \in 1..Len(seq)}

\* C5: for every script with a line `end` that no open `loop` precedes,
\* validation reports "'end' without matching 'loop'" with the number of that
\* line in the script (blank lines before it included), and nothing is executed.
C5_StrayEndReportedAtItsLine ==
    ppc = "executed" =>
        \A i \in StrayEnds(script) :
            /\ \E e \in Elems(errors) :
                   e.kind = "'end' without matching 'loop'" /\ e.line_num = i
            /\ parsed.none
            /\ direct.invoked = <<>>

\* the first token of the line is `loop`
FirstTokenLoop(line) == Split(line)[1] = KwLoop

\* `loop <n>` with n a positive integer literal
PositiveLoop(line) ==
    LET parts == Split(line)
    IN Len(parts) = 2 /\ IsDigit(parts[2]) /\ ToNat(parts[2]) > 0

\* a line the validator handles as a loop, and one it accepts as a loop
LoopLine(line) == StartsWith(line, KwLoop)

AcceptedLoop(line) ==
    LoopLine(line) /\ Len(Split(line)) = 2 /\ IsDigit(Split(line)[2])

RECURSIVE OpenAfter(_, _)
\* the number of accepted loops not yet closed after the first n lines
OpenAfter(lines, n) ==
    IF n = 0 THEN 0
    ELSE LET d == OpenAfter(lines, n - 1) IN
         IF AcceptedLoop(lines[n]) THEN d + 1
         ELSE IF ~LoopLine(lines[n]) /\ lines[n] = KwEnd /\ d > 0 THEN d - 1
         ELSE d

\* line n breaks a rule of the validator: a loop line that is not
\* `loop <digits>`, an `end` with no loop open, a name that is not registered,
\* or a registered name with the wrong number of tokens after it
FaultyLine(lines, n) ==
    LET line == lines[n]
        parts == Split(line)
    IN IF LoopLine(line) THEN ~AcceptedLoop(line)
       ELSE IF line = KwEnd THEN OpenAfter(lines, n - 1) = 0
       ELSE \/ parts[1] \notin DOMAIN FUNCTION_REGISTRY
            \/ Len(parts) - 1 /= ExpectedUserArgs(FUNCTION_REGISTRY[parts[1]])

FaultyLines(lines) == {n \in 1..Len(lines) : FaultyLine(lines, n)}

\* the entries of an error list that cite a line
LineErrors(errs) == SelectSeq(errs, LAMBDA e : e.kind /= "Unclosed 'loop' detected")

\* C14: validation is total: check_syntax scans every non-blank line and
\* returns the complete list of errors, one entry for each line that breaks a
\* rule of the validator, in line order, plus the unclosed-loop entry when a
\* loop stays open; it does not stop at the first error.
C14_ValidationIsTotal ==
    ppc = "checked" =>
        LET lines == StrippedLines(script)
            errs == LineErrors(errors)
            faulty == FaultyLines(lines)
        IN /\ {errs[k].line_num : k \in 1..Len(errs)} = faulty
           /\ \A k \in 1..(Len(errs) - 1) : errs[k].line_num < errs[k + 1].line_num
           /\ Len(errors) = Cardinality(faulty)
                               + (IF OpenAfter(lines, Len(lines)) > 0 THEN 1 ELSE 0)

\* three faulty lines of three kinds, and three entries
C14_Witness ==
    /\ ppc = "checked"
    /\ script = <<LnFoo, LnWaitNoArg, LnLoopNoCount>>
    /\ [k \in 1..Len(errors) |-> errors[k].kind]
           = <<"unknown command", "wrong number of arguments", "invalid loop syntax">>
    /\ [k \in 1..Len(errors) |-> errors[k].line_num] = <<1, 2, 3>>

\* the lines that are neither a loop directive (first token `loop`) nor `end`
\* and whose first token is not a registered command name
UnregisteredLines(lines) ==
    {n \in 1..Len(lines) :
        /\ ~FirstTokenLoop(lines[n])
        /\ lines[n] /= KwEnd
        /\ Split(lines[n])[1] \notin DOMAIN FUNCTION_REGISTRY}

\* C15: for every line that is neither a loop directive nor `end` and whose
\* first token is not a registered command name, validation records exactly one
\* 'unknown command' error for that line and no argument-count error for it.
C15_UnknownCommandReported ==
    ppc \in {"checked", "parsed", "executed"} =>
        \A n \in UnregisteredLines(StrippedLines(script)) :
            /\ Cardinality({k \in 1..Len(errors) :
                               /\ errors[k].kind = "unknown command"
                               /\ errors[k].line_num = n}) = 1
            /\ \A k \in 1..Len(errors) :
                   errors[k].line_num = n => errors[k].kind = "unknown command"

\* the lines whose first token is `loop` and that are not `loop <positive>`
BadLoopLines(lines) ==
    {n \in 1..Len(lines) : FirstTokenLoop(lines[n]) /\ ~PositiveLoop(lines[n])}

\* C16: every loop directive accepted by validation has a count > 0: a loop
\* line whose second token is not a positive integer literal, `loop 0`
\* included, is reported as invalid loop syntax and never reaches expansion.
C16_LoopCountPositive ==
    ppc \in {"checked", "parsed", "executed"} =>
        \A n \in BadLoopLines(StrippedLines(script)) :
            /\ \E k \in 1..Len(errors) :
                   errors[k].kind = "invalid loop syntax" /\ errors[k].line_num = n
            /\ ppc \in {"parsed", "executed"} => parsed.none

\* C27: for every script whose validation returns no errors, parse_commands
\* returns a flat command list and an empty error list and does not raise,
\* whether or not the interface has ever been connected and whatever the
\* argument tokens that validation accepted.
C27_ParseOfValidScriptReturns ==
    (ppc \in {"parsed", "executed"} /\ errors = <<>>) =>
        /\ parsed.exc = ""
        /\ ~parsed.none
        /\ parsed.errors = <<>>

\* the lines whose first token begins with the letters `loop` and is not `loop`
LoopLookalikes(lines) ==
    {n \in 1..Len(lines) :
        LET first == Split(lines[n])[1] IN
        StartsWith(first, KwLoop) /\ first /= KwLoop}

\* C25: a line is handled as a loop directive only when its first token is
\* exactly `loop`: a line whose first token only begins with those letters
\* (`loopX 3`) is a command line for validation and for expansion, so it is
\* reported as an unknown command and its script is never expanded.
C25_LoopOnlyByExactToken ==
    ppc \in {"checked", "parsed", "executed"} =>
        \A n \in LoopLookalikes(StrippedLines(script)) :
            /\ \E k \in 1..Len(errors) :
                   errors[k].kind = "unknown command" /\ errors[k].line_num = n
            /\ ppc \in {"parsed", "executed"} => parsed.none

\* the command lines of the validator's list whose token count is wrong
MiscountedLines(lines) ==
    {n \in 1..Len(lines) :
        LET parts == Split(lines[n]) IN
        /\ parts[1] \in DOMAIN FUNCTION_REGISTRY
        /\ Len(Tail(parts)) /=
               Cardinality({k \in 1..Len(FUNCTION_REGISTRY[parts[1]].args) :
                               FUNCTION_REGISTRY[parts[1]].args[k].user})}

\* C6: every line whose command is registered and whose number of tokens after
\* the name differs from the number of user-supplied slots gets an error citing
\* the expected count (user-supplied slots) and the given count (tokens after
\* the name), and the script is not executed.
C6_WrongArgCountReported ==
    ppc = "executed" =>
        \A n \in MiscountedLines(StrippedLines(script)) :
            LET line == StrippedLines(script)[n]
                parts == Split(line)
                slots == FUNCTION_REGISTRY[parts[1]].args
            IN /\ \E e \in Elems(errors) :
                      /\ e.kind = "wrong number of arguments"
                      /\ e.line = line
                      /\ e.cmd_name = parts[1]
                      /\ e.expected = Cardinality({k \in 1..Len(slots) : slots[k].user})
                      /\ e.given = Len(parts) - 1
               /\ parsed.none
               /\ direct.invoked = <<>>

\* a registered command with no user-supplied slot was given one token
C6_Witness ==
    /\ ppc = "executed"
    /\ script = <<LnBlank, LnFbGet1>>
    /\ \E e \in Elems(errors) :
           e.kind = "wrong number of arguments" /\ e.expected = 0 /\ e.given = 1

RECURSIVE Product(_)
Product(ns) == IF ns = <<>> THEN 1 ELSE Head(ns) * Product(Tail(ns))

RECURSIVE WeightedLength(_, _, _)
\* The length the claim gives a well-formed script, computed line by line: a
\* command counts once for every repetition of the loops around it (a loop's
\* contribution is its count times the length of its body, recursively).
WeightedLength(lines, i, counts) ==
    IF i > Len(lines) THEN 0
    ELSE IF StartsWith(lines[i], KwLoop)
    THEN WeightedLength(lines, i + 1, Append(counts, ToNat(Split(lines[i])[2])))
    ELSE IF lines[i] = KwEnd
    THEN WeightedLength(lines, i + 1, SubSeq(counts, 1, Len(counts) - 1))
    ELSE Product(counts) + WeightedLength(lines, i + 1, counts)

\* parse_commands returned a command list
Expanded == ppc \in {"parsed", "executed"} /\ parsed.exc = "" /\ ~parsed.none

\* C7: for every script that passes validation, the length of the flat command
\* sequence is the sum over the top-level nodes of 1 for a command and count
\* times the expanded length of the body for a loop, at any nesting depth.
C7_FlatLengthIsWeightedSum ==
    Expanded => Len(parsed.commands) = WeightedLength(StrippedLines(script), 1, <<>>)

\* two nested loops: 2 * (3 * 1) commands
C7_Witness ==
    /\ Expanded
    /\ script = <<LnLoop2, LnLoop3, LnWait1, LnEnd, LnEnd>>
    /\ Len(parsed.commands) = 6

RECURSIVE MatchingEnd(_, _, _)
\* the index of the `end` that closes the loop opened just before line i
MatchingEnd(lines, i, depth) ==
    IF i > Len(lines) THEN i
    ELSE IF StartsWith(lines[i], KwLoop) THEN MatchingEnd(lines, i + 1, depth + 1)
    ELSE IF lines[i] = KwEnd
    THEN (IF depth = 1 THEN i ELSE MatchingEnd(lines, i + 1, depth - 1))
    ELSE MatchingEnd(lines, i + 1, depth)

RECURSIVE OrderedNames(_)
\* The command names of a well-formed script in the order the claim gives: what
\* precedes a loop, then its body's expansion count times, then what follows.
OrderedNames(lines) ==
    IF lines = <<>> THEN <<>>
    ELSE IF StartsWith(Head(lines), KwLoop)
    THEN LET j == MatchingEnd(lines, 2, 1)
             body == OrderedNames(SubSeq(lines, 2, j - 1))
         IN Repeat(body, ToNat(Split(Head(lines))[2]))
              \o OrderedNames(SubSeq(lines, j + 1, Len(lines)))
    ELSE <<Split(Head(lines))[1]>> \o OrderedNames(Tail(lines))

\* C8: expansion preserves script order: a loop contributes, where it stands,
\* its body's expansion count times in body order, between what precedes the
\* loop and what follows its end; `loop 2 / wait 1 / end` gives two wait(1).
C8_ExpansionKeepsOrder ==
    Expanded =>
        /\ [k \in 1..Len(parsed.commands) |-> parsed.commands[k].cmd]
               = OrderedNames(StrippedLines(script))
        /\ script = <<LnLoop2, LnWait1, LnEnd>> =>
               parsed.commands =
                   << [cmd |-> NmWait, func |-> "ScriptingInterface.wait", args |-> <<1>>],
                      [cmd |-> NmWait, func |-> "ScriptingInterface.wait", args |-> <<1>>] >>

\* a loop between two other commands
C8_Witness ==
    /\ Expanded
    /\ script = <<LnFbGet, LnLoop2, LnWait1, LnFbGet, LnEnd>>
    /\ Len(parsed.commands) = 5
    /\ parsed.commands[1].cmd = NmFbGet
    /\ parsed.commands[4].cmd = NmWait

\* the objects behind the entries of the flat list of the script
EntryObjects == ObjectsFrom(StrippedLines(script), 1, <<>>).objs

\* C22: the repetitions of a loop body in the flat sequence are independent
\* copies: no two positions of the flat list refer to the same entry object,
\* so changing the argument list of the entry at one position leaves the
\* entry at every other position as it was.
C22_RepetitionsIndependent ==
    Expanded =>
        /\ Len(EntryObjects) = Len(parsed.commands)
        /\ \A i, j \in 1..Len(parsed.commands) :
               i /= j =>
                   /\ EntryObjects[i] /= EntryObjects[j]
                   /\ AppendArg(parsed.commands, EntryObjects, i, 0)[j] = parsed.commands[j]

\* the loops are well nested: every accepted loop line has a matching later
\* `end`, and every `end` closes a loop that is open
WellNested(lines) ==
    /\ \A n \in 1..Len(lines) :
           AcceptedLoop(lines[n]) => MatchingEnd(lines, n + 1, 1) <= Len(lines)
    /\ \A n \in 1..Len(lines) :
           (~LoopLine(lines[n]) /\ lines[n] = KwEnd) => OpenAfter(lines, n - 1) > 0

\* C17: loop nesting is checked before any expansion: a script passes
\* validation, and is expanded, only if every accepted loop line has a
\* matching later `end` and every `end` closes an open loop; if a loop is still
\* open after the last line, `Unclosed 'loop' detected` is exactly once in the
\* error list, as its last entry, however many loops are open (and it is not in
\* the list when no loop is open).
C17_NestingCheckedFirst ==
    ppc \in {"checked", "parsed", "executed"} =>
        LET lines == StrippedLines(script)
            unclosed == {k \in 1..Len(errors) : errors[k] = UnclosedLoop}
        IN /\ errors = <<>> => WellNested(lines)
           /\ (ppc /= "checked" /\ ~parsed.none) => WellNested(lines)
           /\ unclosed = (IF OpenAfter(lines, Len(lines)) > 0 THEN {Len(errors)} ELSE {})

\* two loops left open after an unknown command: one entry, the last
C17_Witness ==
    /\ ppc = "parsed"
    /\ script = <<LnFoo, LnLoop2, LnLoop2>>
    /\ OpenAfter(StrippedLines(script), 3) = 2
    /\ Len(errors) = 2
    /\ errors[2] = UnclosedLoop
    /\ parsed.none

\* the number of user-supplied slots among the first k
UserRank(specs, k) == Cardinality({j \in 1..k : specs[j].user})

\* the argument list the claim gives a command line: slot k holds the converted
\* token of its rank among the user-supplied slots, or else its default
ExpectedArgs(line) ==
    LET parts == Split(line)
        specs == FUNCTION_REGISTRY[parts[1]].args
    IN [k \in 1..Len(specs) |->
           IF specs[k].user THEN ToNat(parts[1 + UserRank(specs, k)])
           ELSE specs[k].default]

\* the command lines of a validated script
CommandLines(lines) ==
    {n \in 1..Len(lines) : ~LoopLine(lines[n]) /\ lines[n] /= KwEnd}

\* C18: for every validated command line the resolved argument list has one
\* value per ArgSpec in declared order: the i-th user token, converted, is in
\* the i-th user-supplied slot and every other slot holds its default; no user
\* token is in a slot that is not user-supplied.
C18_ArgumentsInTheirSlots ==
    Expanded =>
        LET lines == StrippedLines(script) IN
        /\ \A k \in 1..Len(parsed.commands) :
               /\ Len(parsed.commands[k].args)
                      = Len(FUNCTION_REGISTRY[parsed.commands[k].cmd].args)
               /\ \E n \in CommandLines(lines) :
                      /\ parsed.commands[k].cmd = Split(lines[n])[1]
                      /\ parsed.commands[k].args = ExpectedArgs(lines[n])
        /\ CommandLines(lines) = 1..Len(lines) =>
               /\ Len(parsed.commands) = Len(lines)
               /\ \A n \in 1..Len(lines) :
                      parsed.commands[n].args = ExpectedArgs(lines[n])

\* a command whose first slot is a default and whose second is the user's
C18_Witness ==
    /\ Expanded
    /\ script = <<LnTrackSet7, LnXySet12, LnWaitPadded>>
    /\ parsed.commands[1].args = <<1, 7>>
    /\ parsed.commands[2].args = <<1, 2>>
    /\ parsed.commands[3].args = <<7>>

(***************************************************************************)
(* The remote client called directly: SpecQuery.                           *)
(***************************************************************************)
FldOK == <<"O", "K">>

FldVars == <<"1", ",", "2", ",", "3">>

FldErr == <<"e", "r", "r">>

FldResp == <<"r", "e", "s", "p">>

FldNonePadded == <<"N", "o", "n", "e", " ">>

\* the fields a reply is made of
Fields == {TxtNone, FldOK, FldVars, FldErr, FldResp, FldNonePadded, <<>>}

RECURSIVE Join(_, _)
\* sep.join(fields)
Join(fields, sep) ==
    IF fields = <<>> THEN <<>>
    ELSE IF Len(fields) = 1 THEN Head(fields)
    ELSE Head(fields) \o <<sep>> \o Join(Tail(fields), sep)

\* the replies a peer may send: fields joined by `|`, with or without a newline
Replies ==
    {Join(f, "|") \o nl : f \in SeqsUpTo(Fields, MaxFields), nl \in {<<>>, <<"\n">>}}

InitQuery ==
    /\ wire \in Replies
    /\ qpc = "ready"
    /\ qres = NoQuery
    /\ calls = 0
    /\ sockets = <<>>
    /\ hasNanonis = FALSE
    /\ ParserOff
    /\ EngineInit

\* a client object takes a call when it is new or its last call has returned
CanCall == qpc \in {"ready", "replied", "failed", "sent", "send failed"} /\ calls < MaxCalls

\* the peer sends `wire` and closes the connection
QueryReplied ==
    /\ CanCall
    /\ qres' = QueryReply(wire)
    /\ qpc' = "replied"
    /\ calls' = calls + 1
    /\ sockets' = Append(sockets, SocketOf("query", calls + 1, "done"))
    /\ UNCHANGED <<wire, hasNanonis, parserVars, engineVars>>

\* connect, sendall, recv or decode raises: caught and returned when the
\* statement is inside the try block, raised to the caller when not
QueryFailed ==
    /\ CanCall
    /\ \E where \in RaisePoints("query") :
          /\ IF InTry("query", where)
             THEN qres' = QueryException /\ qpc' = "failed"
             ELSE qres' = qres /\ qpc' = "raised"
          /\ sockets' = Append(sockets, SocketOf("query", calls + 1, where))
    /\ calls' = calls + 1
    /\ UNCHANGED <<wire, hasNanonis, parserVars, engineVars>>

\* send: the line is sent and the socket closed; whatever the peer would
\* answer is not read
SendSent ==
    /\ CanCall
    /\ qres' = SendDone
    /\ qpc' = "sent"
    /\ calls' = calls + 1
    /\ sockets' = Append(sockets, SocketOf("send", calls + 1, "done"))
    /\ UNCHANGED <<wire, hasNanonis, parserVars, engineVars>>

\* send: connect or sendall raises
SendFailed ==
    /\ CanCall
    /\ \E where \in RaisePoints("send") :
          /\ IF InTry("send", where)
             THEN qres' = SendException /\ qpc' = "send failed"
             ELSE qres' = qres /\ qpc' = "raised"
          /\ sockets' = Append(sockets, SocketOf("send", calls + 1, where))
    /\ calls' = calls + 1
    /\ UNCHANGED <<wire, hasNanonis, parserVars, engineVars>>

NextQuery == QueryReplied \/ QueryFailed \/ SendSent \/ SendFailed

SpecQuery == InitQuery /\ [][NextQuery]_vars

RECURSIVE CountChar(_, _)
CountChar(s, c) ==
    IF s = <<>> THEN 0
    ELSE (IF Head(s) = c THEN 1 ELSE 0) + CountChar(Tail(s), c)

\* the three fields of a reply with exactly two `|`
FieldsOf(reply) == SplitOn(Strip(reply), "|")

\* C9: on a reply of exactly 3 fields query returns error, response and
\* variables, a field `None` giving the empty string (error, response) or the
\* empty list (variables), the variables otherwise the third field split on
\* `,`; for `None|OK|1,2,3`: error = "", response = "OK", variables = [1,2,3].
C9_ThreeFieldsParsed ==
    (qpc = "replied" /\ CountChar(wire, "|") = 2) =>
        /\ qres.error.py = "str"
        /\ qres.error.v = (IF FieldsOf(wire)[1] = TxtNone THEN <<>> ELSE FieldsOf(wire)[1])
        /\ qres.response = (IF FieldsOf(wire)[2] = TxtNone THEN <<>> ELSE FieldsOf(wire)[2])
        /\ qres.variables =
               (IF FieldsOf(wire)[3] = TxtNone THEN <<>> ELSE SplitOn(FieldsOf(wire)[3], ","))
        /\ wire = Join(<<TxtNone, FldOK, FldVars>>, "|") =>
               /\ qres.error.v = <<>>
               /\ qres.response = FldOK
               /\ qres.variables = << <<"1">>, <<"2">>, <<"3">> >>

\* C10: on a reply that splits on `|` into fewer or more than 3 fields query
\* returns error = "Malformed response", response = the stripped reply text
\* and no variables.
C10_MalformedReply ==
    (qpc = "replied" /\ CountChar(wire, "|") /= 2) =>
        /\ qres.error.py = "str"
        /\ qres.error.v = TxtMalformed
        /\ qres.response = Strip(wire)
        /\ qres.variables = <<>>

\* the reply `err|resp`, sent with a newline
C10_Witness ==
    /\ qpc = "replied"
    /\ wire = Join(<<FldErr, FldResp>>, "|") \o <<"\n">>
    /\ qres.error = PyStr(TxtMalformed)
    /\ qres.response = Join(<<FldErr, FldResp>>, "|")

\* C19: a connection or IO exception raised inside send or query is caught
\* and returned as the result (error = the exception's text, response empty,
\* variables the empty list) and never reaches the caller; send returns the
\* all-empty triple on success, whatever the peer would have answered.
C19_ExceptionsReturned ==
    /\ qpc /= "raised"
    /\ qpc \in {"failed", "send failed"} =>
           /\ qres.error = PyStr(TxtException)
           /\ qres.response = <<>>
           /\ qres.variables = <<>>
    /\ qpc = "sent" =>
           /\ qres.error = PyStr(<<>>)
           /\ qres.response = <<>>
           /\ qres.variables = <<>>

\* query failed although the peer had a well-formed reply to give
C19_Witness ==
    /\ qpc = "failed"
    /\ wire = Join(<<TxtNone, FldOK, FldVars>>, "|")
    /\ qres.error = PyStr(TxtException)

\* the first component of what a capability returned, as the worker's
\* `if len(errorString) != 0: status = errorString else: status = "OK"` reads it
RequestStatus(errorString) ==
    IF Len(errorString.v) /= 0 THEN errorString ELSE PyStr(FldOK)

\* the error text a capability result carries
ErrorText(errorString) ==
    IF errorString.py = "list" THEN errorString.v[1] ELSE errorString.v

\* C23: the status of a command's Request entry is the string "OK" if and
\* only if the capability's error text is empty, and is the error text
\* otherwise, for every result a remote call returns, the result of a
\* successful query included.
C23_StatusOKIffNoError ==
    qpc \in {"replied", "failed", "sent", "send failed"} =>
        RequestStatus(qres.error) =
            (IF ErrorText(qres.error) = <<>> THEN PyStr(FldOK)
             ELSE PyStr(ErrorText(qres.error)))

\* C24: each send or query call opens its own connection and holds one
\* socket, and when the call has returned, on every exit path (success,
\* malformed reply, exception), that socket is closed: no socket stays open
\* between calls and no call uses the socket of another.
C24_SocketClosedOnEveryPath ==
    /\ Len(sockets) = calls
    /\ \A i \in 1..Len(sockets) :
           /\ sockets[i].call = i
           /\ ~sockets[i].open

\* a second call that failed with an exception, after a first call
C24_Witness ==
    /\ calls = 2
    /\ qpc = "failed"
    /\ Len(sockets) = 2
    /\ ~sockets[1].open /\ ~sockets[2].open

=============================================================================
